---- MODULE Spec2Model ----
(***************************************************************************)
(* intel/tcf: the ttblc extension (ttbd/ttbl/ttblc.c), one function        *)
(* waitid_poll() that peeks at the process table with                      *)
(*   waitid(P_ALL, 0, &si, WNOHANG | WEXITED | WNOWAIT)                    *)
(* and the training programs doc/training/test_18/src/main*.c, which draw  *)
(* a 32 bit random value and test its bit 0.                               *)
(*                                                                         *)
(* Two state machines share the module: Spec runs the threads of one       *)
(* process calling waitid_poll() while its children fork, stop, continue,  *)
(* die and are reaped; SmokeSpec runs the three training programs.         *)
(***************************************************************************)
EXTENDS Integers, FiniteSets, Sequences, TLC

(* ------------------------------ bounds -------------------------------- *)

\* Pids the process may ever fork (its children are 1..MaxChildren).
MaxChildren == 2

\* Threads of the calling process.
NThreads == 2

Pids == 1..MaxChildren
Threads == 1..NThreads

(* --------------------------- process table ---------------------------- *)

\* What the kernel holds for a pid, seen from the parent:
\*   absent     never forked
\*   running    alive, no report pending
\*   stopped    stopped by a signal, the stop not yet reported to a wait
\*   continued  resumed by SIGCONT, the resume not yet reported to a wait
\*   exited     zombie, called exit
\*   killed     zombie, killed by a signal
\*   reaped     its status was consumed by a wait; no longer a child
ChildStates ==
    {"absent", "running", "stopped", "continued", "exited", "killed", "reaped"}

VARIABLES
    table,      \* [Pids -> ChildStates]: the process table of the caller
    epoch,      \* history: the table as the last non-poll step left it (base),
                \* the polls made since, each with its thread, waitid's r and
                \* the object returned (results), and the pid that step reaped
                \* because a poll had reported it (reapedPolled, else 0)
    pc,         \* [Threads -> {"idle", "waitid", "returned", "waited"}]
    si_pid,     \* [Threads -> Int]: si.si_pid of the thread's call
    r,          \* [Threads -> Int]: what waitid returned to the thread
    ret,        \* [Threads -> Python object]: what waitid_poll returned
    waitRes,    \* [Threads -> Int]: what the thread's waitpid(ret) returned
    prog,       \* the training program: "none", "main", "main-b", "main-c"
    spc,        \* its position
    rnd,        \* the values drawn from sys_rand32_get(), in order
    out,        \* what it has printed, in order
    result      \* main: run_some_test()'s value; main-b: r; main-c: ztest's
                \* count of failed tests and the last test's outcome

pollVars == <<table, epoch, pc, si_pid, r, ret, waitRes>>
smokeVars == <<prog, spc, rnd, out, result>>
vars == <<table, epoch, pc, si_pid, r, ret, waitRes, prog, spc, rnd, out, result>>

\* The children of the caller: forked and not yet reaped.
Children(tbl) == {p \in Pids : tbl[p] \notin {"absent", "reaped"}}

\* Children that terminated (exit or fatal signal) and wait to be reaped.
Zombies(tbl) == {p \in Pids : tbl[p] \in {"exited", "killed"}}

\* Children with any report pending: exit, kill, stop or continue.
PendingAny(tbl) ==
    {p \in Pids : tbl[p] \in {"exited", "killed", "stopped", "continued"}}

NoTable == [p \in Pids |-> "absent"]

\* A step other than a poll changed the table to tbl; reaped is the pid it
\* reaped on the strength of a poll's report, 0 otherwise.
NewEpoch(tbl, reaped) == [base |-> tbl, results |-> {}, reapedPolled |-> reaped]

(* ------------------------------ waitid -------------------------------- *)

\* The options of the call at ttblc.c:14 (WaitidOptions), preceded by the
\* faulty variants the properties are tried against: WNOWAIT forgotten,
\* WNOHANG forgotten, WSTOPPED | WCONTINUED added.
WaitidNoWnowait == {"WNOHANG", "WEXITED"}
WaitidNoWnohang == {"WEXITED", "WNOWAIT"}
WaitidAllEvents == {"WNOHANG", "WEXITED", "WSTOPPED", "WCONTINUED", "WNOWAIT"}
WaitidOptions == {"WNOHANG", "WEXITED", "WNOWAIT"}

\* waitid(P_ALL, ...): the children whose state the options select.
Waitable(tbl, opts) ==
    {p \in Pids :
        \/ "WEXITED" \in opts /\ tbl[p] \in {"exited", "killed"}
        \/ "WSTOPPED" \in opts /\ tbl[p] = "stopped"
        \/ "WCONTINUED" \in opts /\ tbl[p] = "continued"}

\* What a wait without WNOWAIT does to the child it reports: a zombie is
\* reaped, a continue report is cleared.
Consume(tbl, p) ==
    [tbl EXCEPT ![p] = IF tbl[p] \in {"exited", "killed"} THEN "reaped"
                       ELSE IF tbl[p] = "continued" THEN "running"
                       ELSE tbl[p]]

\* The outcomes of waitid(P_ALL, 0, &si, opts) on table tbl with si.si_pid = si
\* on entry: the set of <<r, si_pid, table after>>; empty when the call blocks.
\*   no children                   -1 (ECHILD), si untouched
\*   a selected child p            0, si_pid = p, consumed unless WNOWAIT
\*   none selected, WNOHANG        0, si untouched or zeroed (implementation
\*                                 dependent: Linux zeroes si_pid)
\*   none selected, no WNOHANG     blocks
Waitid(tbl, si, opts) ==
    IF Children(tbl) = {} THEN {<<-1, si, tbl>>}
    ELSE IF Waitable(tbl, opts) # {}
    THEN {<<0, p, IF "WNOWAIT" \in opts THEN tbl ELSE Consume(tbl, p)>> :
             p \in Waitable(tbl, opts)}
    ELSE IF "WNOHANG" \in opts THEN {<<0, si, tbl>>, <<0, 0, tbl>>}
    ELSE {}

(* ---------------------------- waitid_poll ----------------------------- *)

\* siginfo_t si = { .si_pid = 0 }: the values si.si_pid may hold on entry
\* (SiPidInit). SiPidUninit: si left uninitialized, any stack content.
SiPidUninit == {0} \cup Pids
SiPidInit == {0}

\* Py_BuildValue("i", v): the C int v becomes a new Python int object holding
\* the same value. A PyCFunction that returns NULL has raised an exception.
Py_BuildValue_i(v) == [py |-> "int", val |-> v]
PyNull == [py |-> "NULL", val |-> 0]

\* Lines 15-19: the object waitid_poll returns (PollResult). Faulty variants:
\* the failure raised as an exception; the si_pid == 0 case folded into -1.
PollResultRaise(rv, si) ==
    IF rv # 0 THEN PyNull
    ELSE IF si = 0 THEN Py_BuildValue_i(0)
    ELSE Py_BuildValue_i(si)
PollResultNoZeroTest(rv, si) ==
    IF rv # 0 THEN Py_BuildValue_i(-1)
    ELSE IF si = 0 THEN Py_BuildValue_i(-1)
    ELSE Py_BuildValue_i(si)
PollResult(rv, si) ==
    IF rv # 0 THEN Py_BuildValue_i(-1)
    ELSE IF si = 0 THEN Py_BuildValue_i(0)
    ELSE Py_BuildValue_i(si)

\* A thread enters waitid_poll: line 13.
PollCall(t) ==
    /\ pc[t] = "idle"
    /\ \E v \in SiPidInit : si_pid' = [si_pid EXCEPT ![t] = v]
    /\ pc' = [pc EXCEPT ![t] = "waitid"]
    /\ UNCHANGED <<table, epoch, r, ret, waitRes>>
    /\ UNCHANGED smokeVars

\* Lines 14-19: the waitid call, one atomic read of the process table, and the
\* mapping of its outcome to the return value.
PollWaitid(t) ==
    /\ pc[t] = "waitid"
    /\ \E o \in Waitid(table, si_pid[t], WaitidOptions) :
          /\ r' = [r EXCEPT ![t] = o[1]]
          /\ si_pid' = [si_pid EXCEPT ![t] = o[2]]
          /\ table' = o[3]
          /\ ret' = [ret EXCEPT ![t] = PollResult(o[1], o[2])]
          /\ epoch' = [epoch EXCEPT
                         !.results = @ \cup {[t |-> t, r |-> o[1],
                                              ret |-> PollResult(o[1], o[2])]}]
    /\ pc' = [pc EXCEPT ![t] = "returned"]
    /\ UNCHANGED waitRes
    /\ UNCHANGED smokeVars

(* ------------------------- the poll's callers ------------------------- *)

\* The integer the caller got from its poll, and whether it got an exception.
RetVal(t) == ret[t].val
Raised(t) == ret[t].py = "NULL"

\* The caller acts on a pid the poll reported: waitpid(ret, &status, 0), which
\* reaps the zombie, or fails with ECHILD (-1) when the pid is no longer a child.
WaitPid(t) ==
    /\ pc[t] = "returned"
    /\ ~Raised(t) /\ RetVal(t) \in Pids
    /\ table[RetVal(t)] \in {"exited", "killed", "reaped", "absent"}
    /\ IF table[RetVal(t)] \in {"exited", "killed"}
       THEN /\ table' = [table EXCEPT ![RetVal(t)] = "reaped"]
            /\ waitRes' = [waitRes EXCEPT ![t] = RetVal(t)]
            /\ epoch' = NewEpoch(table', RetVal(t))
       ELSE /\ waitRes' = [waitRes EXCEPT ![t] = -1]
            /\ UNCHANGED <<table, epoch>>
    /\ pc' = [pc EXCEPT ![t] = "waited"]
    /\ UNCHANGED <<si_pid, r, ret>>
    /\ UNCHANGED smokeVars

\* The caller is done with the poll's result and goes on.
Done(t) ==
    /\ pc[t] \in {"returned", "waited"}
    /\ pc' = [pc EXCEPT ![t] = "idle"]
    /\ si_pid' = [si_pid EXCEPT ![t] = 0]
    /\ r' = [r EXCEPT ![t] = 0]
    /\ ret' = [ret EXCEPT ![t] = Py_BuildValue_i(0)]
    /\ waitRes' = [waitRes EXCEPT ![t] = 0]
    /\ UNCHANGED <<table, epoch>>
    /\ UNCHANGED smokeVars

\* A thread that did not poll reaps a zombie with a plain wait().
Reap(t, p) ==
    /\ pc[t] = "idle"
    /\ table[p] \in {"exited", "killed"}
    /\ table' = [table EXCEPT ![p] = "reaped"]
    /\ epoch' = NewEpoch(table', 0)
    /\ UNCHANGED <<pc, si_pid, r, ret, waitRes>>
    /\ UNCHANGED smokeVars

(* ---------------------------- the children ---------------------------- *)

\* A child changes state.
TableChange(p, to) ==
    /\ table' = [table EXCEPT ![p] = to]
    /\ epoch' = NewEpoch(table', 0)
    /\ UNCHANGED <<pc, si_pid, r, ret, waitRes>>
    /\ UNCHANGED smokeVars

\* fork(): the kernel assigns the next unused pid.
Fork(p) ==
    /\ table[p] = "absent"
    /\ \A q \in Pids : q < p => table[q] # "absent"
    /\ TableChange(p, "running")

ChildExit(p) ==
    /\ table[p] \in {"running", "continued"}
    /\ TableChange(p, "exited")

ChildKilled(p) ==
    /\ table[p] \in {"running", "stopped", "continued"}
    /\ TableChange(p, "killed")

ChildStop(p) ==
    /\ table[p] \in {"running", "continued"}
    /\ TableChange(p, "stopped")

ChildCont(p) ==
    /\ table[p] = "stopped"
    /\ TableChange(p, "continued")

(* ----------------------- the training programs ----------------------- *)

\* A uint32_t as its two 16 bit halves <<high, low>>.
RandValues ==
    {<<0, 0>>, <<0, 1>>, <<0, 2>>, <<0, 3>>, <<1, 0>>, <<32768, 1>>,
     <<65535, 65534>>, <<65535, 65535>>}

\* sys_rand32_get(): any 32 bit value.
sys_rand32_get == RandValues

\* a & b on 16 bit values.
RECURSIVE BitAnd(_, _)
BitAnd(a, b) ==
    IF a = 0 \/ b = 0 THEN 0
    ELSE (a % 2) * (b % 2) + 2 * BitAnd(a \div 2, b \div 2)

\* a & b on uint32_t values.
BitAnd32(a, b) == <<BitAnd(a[1], b[1]), BitAnd(a[2], b[2])>>

\* A uint32_t used as a condition, or returned as an int that is then tested.
Truthy(v) == v # <<0, 0>>

\* main.c:10-15, run_some_test(): r & 0x1 of the value drawn. Faulty variant:
\* the mask 0x2.
main_run_some_test_bit1(v) == BitAnd32(v, <<0, 2>>)
main_run_some_test(v) == BitAnd32(v, <<0, 1>>)

\* main-b.c:11-16, run_some_test().
mainb_run_some_test(v) == BitAnd32(v, <<0, 1>>)

\* main-c.c:13-14 and 19-20: the condition given to zassert_true().
run_some_test1(v) == BitAnd32(v, <<0, 1>>)
run_some_test2(v) == BitAnd32(v, <<0, 1>>)

\* tc_util.h's results, as main-b.c uses them.
TC_PASS == 0
TC_FAIL == 1

Programs == {"main", "main-b", "main-c"}

Emit(line) == out' = Append(out, line)

\* main.c:19 -> 10-15: main() calls run_some_test(), which draws.
MainCheck ==
    /\ prog = "main" /\ spc = "boot"
    /\ \E v \in sys_rand32_get :
          /\ rnd' = Append(rnd, v)
          /\ result' = main_run_some_test(v)
    /\ spc' = "checked"
    /\ UNCHANGED <<prog, out>>
    /\ UNCHANGED pollVars

\* main.c:19-22: printk("PASS\n") or printk("FAIL\n"), and main() returns.
MainVerdict ==
    /\ prog = "main" /\ spc = "checked"
    /\ Emit(IF Truthy(result) THEN "PASS" ELSE "FAIL")
    /\ spc' = "done"
    /\ UNCHANGED <<prog, rnd, result>>
    /\ UNCHANGED pollVars

\* main-b.c:21: TC_START("random test").
MainBStart ==
    /\ prog = "main-b" /\ spc = "boot"
    /\ Emit("START")
    /\ spc' = "started"
    /\ UNCHANGED <<prog, rnd, result>>
    /\ UNCHANGED pollVars

\* main-b.c:22-25: run_some_test() draws; r = TC_PASS or TC_FAIL.
MainBCheck ==
    /\ prog = "main-b" /\ spc = "started"
    /\ \E v \in sys_rand32_get :
          /\ rnd' = Append(rnd, v)
          /\ result' = IF Truthy(mainb_run_some_test(v)) THEN TC_PASS ELSE TC_FAIL
    /\ spc' = "checked"
    /\ UNCHANGED <<prog, out>>
    /\ UNCHANGED pollVars

\* main-b.c:26: TC_END_RESULT(r) prints the verdict.
MainBEndResult ==
    /\ prog = "main-b" /\ spc = "checked"
    /\ Emit(IF result = TC_PASS THEN "PASS" ELSE "FAIL")
    /\ spc' = "reported"
    /\ UNCHANGED <<prog, rnd, result>>
    /\ UNCHANGED pollVars

\* main-b.c:27: TC_END_REPORT(r) prints the project's end line; main() returns.
MainBEndReport ==
    /\ prog = "main-b" /\ spc = "reported"
    /\ Emit(IF result = TC_PASS THEN "PROJECT SUCCESSFUL" ELSE "PROJECT FAILED")
    /\ spc' = "done"
    /\ UNCHANGED <<prog, rnd, result>>
    /\ UNCHANGED pollVars

\* main-c.c:25-29: ztest_run_test_suite(test_18) announces the suite.
SuiteStart ==
    /\ prog = "main-c" /\ spc = "boot"
    /\ Emit("START")
    /\ spc' = "test1"
    /\ result' = [fail |-> 0, last |-> TC_PASS]
    /\ UNCHANGED <<prog, rnd>>
    /\ UNCHANGED pollVars

\* ztest runs a unit test: the body draws and hands cond to zassert_true(); a
\* false cond fails the test, and the suite counts it.
ZtestBody(at, then, v, cond) ==
    /\ prog = "main-c" /\ spc = at
    /\ rnd' = Append(rnd, v)
    /\ result' = IF Truthy(cond) THEN [fail |-> result.fail, last |-> TC_PASS]
                 ELSE [fail |-> result.fail + 1, last |-> TC_FAIL]
    /\ spc' = then
    /\ UNCHANGED <<prog, out>>
    /\ UNCHANGED pollVars

\* main-c.c:11-15, run_some_test1().
RunSomeTest1 ==
    \E v \in sys_rand32_get :
        ZtestBody("test1", "verdict1", v, run_some_test1(v))

\* main-c.c:17-21, run_some_test2().
RunSomeTest2 ==
    \E v \in sys_rand32_get :
        ZtestBody("test2", "verdict2", v, run_some_test2(v))

\* ztest prints the unit test's verdict when the test is over.
ZtestVerdict(at, then) ==
    /\ prog = "main-c" /\ spc = at
    /\ Emit(IF result.last = TC_PASS THEN "PASS" ELSE "FAIL")
    /\ spc' = then
    /\ UNCHANGED <<prog, rnd, result>>
    /\ UNCHANGED pollVars

Verdict1 == ZtestVerdict("verdict1", "test2")
Verdict2 == ZtestVerdict("verdict2", "suite_end")

\* main-c.c:29: the suite is over; it succeeded when no test failed.
SuiteEnd ==
    /\ prog = "main-c" /\ spc = "suite_end"
    /\ Emit(IF result.fail = 0 THEN "SUITE SUCCEEDED" ELSE "SUITE FAILED")
    /\ spc' = "done"
    /\ UNCHANGED <<prog, rnd, result>>
    /\ UNCHANGED pollVars

(* --------------------------- specification ---------------------------- *)

PollInit ==
    /\ table = NoTable
    /\ epoch = NewEpoch(NoTable, 0)
    /\ pc = [t \in Threads |-> "idle"]
    /\ si_pid = [t \in Threads |-> 0]
    /\ r = [t \in Threads |-> 0]
    /\ ret = [t \in Threads |-> Py_BuildValue_i(0)]
    /\ waitRes = [t \in Threads |-> 0]

SmokeIdle ==
    /\ prog = "none"
    /\ spc = "off"
    /\ rnd = <<>>
    /\ out = <<>>
    /\ result = 0

Init == PollInit /\ SmokeIdle

Next ==
    \/ \E t \in Threads : PollCall(t)
    \/ \E t \in Threads : PollWaitid(t)
    \/ \E t \in Threads : WaitPid(t)
    \/ \E t \in Threads : Done(t)
    \/ \E t \in Threads, p \in Pids : Reap(t, p)
    \/ \E p \in Pids : Fork(p)
    \/ \E p \in Pids : ChildExit(p)
    \/ \E p \in Pids : ChildKilled(p)
    \/ \E p \in Pids : ChildStop(p)
    \/ \E p \in Pids : ChildCont(p)

Spec == Init /\ [][Next]_vars

\* A board boots one of the three training programs.
SmokeInit ==
    /\ PollInit
    /\ prog \in Programs
    /\ spc = "boot"
    /\ rnd = <<>>
    /\ out = <<>>
    /\ result = 0

SmokeNext ==
    \/ MainCheck
    \/ MainVerdict
    \/ MainBStart
    \/ MainBCheck
    \/ MainBEndResult
    \/ MainBEndReport
    \/ SuiteStart
    \/ RunSomeTest1
    \/ Verdict1
    \/ RunSomeTest2
    \/ Verdict2
    \/ SuiteEnd

SmokeSpec == SmokeInit /\ [][SmokeNext]_vars

(* ------------------------------ claims -------------------------------- *)

\* The polls made since the table last changed, and the integers they returned.
Polls == epoch.results
PyInt(v) == Py_BuildValue_i(v)

\* Thread t holds the result of a poll made since the table last changed.
HoldsFreshResult(t) == pc[t] = "returned" /\ \E x \in Polls : x.t = t

\* C1: while exactly one child is a zombie (it exited and was not reaped),
\* every poll, however many are made, returns that child's pid, and the child
\* is still a zombie afterwards.
C1_PollIsRepeatable ==
    \A p \in Pids :
        Zombies(epoch.base) = {p} =>
            /\ \A x \in Polls : x.ret = PyInt(p)
            /\ Polls # {} => Zombies(table) = {p}

\* C1 witness: one zombie, and both of two threads have polled it.
C1_Witness ==
    \E p \in Pids :
        /\ Zombies(epoch.base) = {p}
        /\ Cardinality({x.t : x \in Polls}) >= 2
        /\ \A x \in Polls : x.ret = PyInt(p)

\* C2: a poll leaves the process table as it was, and the pid a thread's poll
\* reported is still a zombie, for that thread's wait to retrieve, for as long
\* as nothing but polls has happened since.
C2_PollLeavesTable ==
    /\ table = epoch.base
    /\ \A t \in Threads :
          HoldsFreshResult(t) /\ RetVal(t) \in Pids =>
              table[RetVal(t)] \in {"exited", "killed"}

\* C2 witness: a thread polled a pid and its own wait then retrieved it.
C2_Witness ==
    \E t \in Threads :
        pc[t] = "waited" /\ RetVal(t) \in Pids /\ waitRes[t] = RetVal(t)

\* C3: with no children every poll returns -1; whenever waitid fails the poll
\* returns the int -1; no poll ever returns NULL (raises).
C3_FailureIsMinusOne ==
    /\ \A x \in Polls :
          /\ Children(epoch.base) = {} => x.ret = PyInt(-1)
          /\ x.r # 0 => x.ret = PyInt(-1)
          /\ x.ret.py = "int"
    /\ \A t \in Threads : ~Raised(t)

\* C3 witness: waitid failed on a childless process and the poll returned.
C3_Witness ==
    \E x \in Polls :
        Children(epoch.base) = {} /\ x.r = -1 /\ pc[x.t] = "returned"

\* C4: while the process has children and none has a report pending, every
\* poll returns 0.
C4_NonePendingIsZero ==
    Children(epoch.base) # {} /\ PendingAny(epoch.base) = {} =>
        \A x \in Polls : x.ret = PyInt(0)

\* C4 witness: children, none pending, and two threads were each answered 0.
C4_Witness ==
    /\ Children(epoch.base) # {} /\ PendingAny(epoch.base) = {}
    /\ {x.t : x \in Polls} = Threads
    /\ \A x \in Polls : x.ret.val = 0

\* C5: after a wait reaped the child a poll had reported, the polls that
\* follow return -1 if no child is left, and 0 if children are left and none
\* has a report pending.
C5_AfterReap ==
    epoch.reapedPolled # 0 =>
        \A x \in Polls :
            /\ Children(epoch.base) = {} => x.ret = PyInt(-1)
            /\ Children(epoch.base) # {} /\ PendingAny(epoch.base) = {} =>
                   x.ret = PyInt(0)

\* C5 witness: the reported child was reaped, another child is left, and the
\* next poll returned 0.
C5_Witness ==
    /\ epoch.reapedPolled # 0
    /\ Children(epoch.base) # {}
    /\ \E x \in Polls : x.ret = PyInt(0)

\* C6 as claimed: a child with any of the four reports pending (exited,
\* killed, stopped, continued) makes the poll return the pid of such a child.
C6_AllFourKindsReported ==
    PendingAny(epoch.base) # {} =>
        \A x \in Polls : x.ret.val \in PendingAny(epoch.base)

\* C6 amended: a child that exited or was killed makes the poll return the
\* pid of such a child; stopped and continued children are not reported: with
\* children and no zombie the poll returns 0.
C6_OnlyTerminatedReported ==
    \A x \in Polls :
        /\ Zombies(epoch.base) # {} => x.ret.val \in Zombies(epoch.base)
        /\ Children(epoch.base) # {} /\ Zombies(epoch.base) = {} =>
               x.ret = PyInt(0)

\* C6 witness: a stopped and a continued child, no zombie, and a poll made.
C6_Witness ==
    /\ \E p \in Pids : epoch.base[p] = "stopped"
    /\ \E p \in Pids : epoch.base[p] = "continued"
    /\ Zombies(epoch.base) = {}
    /\ Polls # {}

\* C7: a thread inside waitid_poll can always take the waitid step: the call
\* returns whatever the process table holds.
C7_NeverBlocks ==
    \A t \in Threads : pc[t] = "waitid" => ENABLED PollWaitid(t)

\* C7 witness: waitid returned with nothing to report, every child running.
C7_Witness ==
    \E t \in Threads :
        /\ HoldsFreshResult(t)
        /\ r[t] = 0 /\ si_pid[t] = 0
        /\ Children(table) # {}
        /\ \A p \in Children(table) : table[p] = "running"

\* The values a poll of table tbl may return.
CorrectResults(tbl) ==
    IF Children(tbl) = {} THEN {-1}
    ELSE IF Zombies(tbl) = {} THEN {0}
    ELSE Zombies(tbl)

\* C8: every thread's poll returned a value correct for the table at the
\* instant of the call; a thread that waits on the pid it was given either
\* reaps it or fails because the pid was reaped meanwhile.
C8_SnapshotAndAdvisory ==
    /\ \A x \in Polls :
          x.ret.py = "int" /\ x.ret.val \in CorrectResults(epoch.base)
    /\ \A t \in Threads :
          pc[t] = "waited" =>
              /\ waitRes[t] \in {-1, RetVal(t)}
              /\ table[RetVal(t)] = "reaped"

\* C8 witness: two threads were given the same pid; one reaped it and the
\* other's wait failed.
C8_Witness ==
    \E t, u \in Threads :
        /\ t # u
        /\ pc[t] = "waited" /\ pc[u] = "waited"
        /\ RetVal(t) = RetVal(u)
        /\ waitRes[t] = RetVal(t)
        /\ waitRes[u] = -1

\* C9: a poll returns -1, 0 or the pid of a zombie of the table at that
\* instant; with two or more zombies it returns one of them; after a reported
\* zombie was reaped, while other zombies are left, it returns one of those.
C9_ResultIsZombieOrSentinel ==
    \A x \in Polls :
        /\ x.ret.val \in {-1, 0} \cup Zombies(epoch.base)
        /\ Cardinality(Zombies(epoch.base)) >= 2 =>
               x.ret.val \in Zombies(epoch.base)
        /\ epoch.reapedPolled # 0 /\ Zombies(epoch.base) # {} =>
               x.ret.val \in Zombies(epoch.base) \ {epoch.reapedPolled}

\* C9 witness: of two zombies the reported one was reaped, and the next poll
\* reported the other.
C9_Witness ==
    /\ epoch.reapedPolled # 0
    /\ \E x \in Polls : x.ret.val \in Zombies(epoch.base)

\* The verdicts printed so far, in order.
IsVerdict(line) == line \in {"PASS", "FAIL"}
Verdicts == SelectSeq(out, IsVerdict)

\* Bit 0 of a drawn value.
Bit0(v) == v[2] % 2

\* The checks a program makes.
Checks == IF prog = "main-c" THEN 2 ELSE 1

\* What C10 says of every program but for the start of reporting: each check
\* draws once; a verdict is printed only after its draw; the i-th verdict is
\* PASS exactly when bit 0 of the i-th draw is 1; a finished run has one
\* verdict per check; main-c's suite succeeds only when both draws have bit 0.
SmokeChecks ==
    /\ Len(rnd) <= Checks
    /\ Len(Verdicts) <= Len(rnd)
    /\ Len(rnd) <= Len(Verdicts) + 1
    /\ \A i \in 1..Len(Verdicts) : (Verdicts[i] = "PASS") <=> (Bit0(rnd[i]) = 1)
    /\ spc = "done" =>
          /\ Len(Verdicts) = Checks
          /\ prog = "main-c" =>
                ((out[Len(out)] = "SUITE SUCCEEDED") <=>
                     (\A i \in 1..2 : Bit0(rnd[i]) = 1))

\* C10 as claimed: the above, and every run starts reporting before its check.
C10_StartCheckVerdict ==
    /\ SmokeChecks
    /\ Len(rnd) > 0 => (out # <<>> /\ out[1] = "START")

\* C10 amended: the above, and main-b and main-c start reporting before their
\* first check; main.c has no such step and prints nothing before its verdict.
C10_CheckVerdict ==
    /\ SmokeChecks
    /\ Len(rnd) > 0 /\ prog # "main" => (out # <<>> /\ out[1] = "START")
    /\ prog = "main" => \A i \in 1..Len(out) : IsVerdict(out[i])

\* C10 witness: main-c finished with one passed and one failed test.
C10_Witness ==
    /\ prog = "main-c" /\ spc = "done"
    /\ Verdicts = <<"PASS", "FAIL">>

====
